---- MODULE Spec2Model ----
(***************************************************************************)
(* A model of src/decoder.py: class GravDecoder.                           *)
(*                                                                         *)
(*   forward          the per-layer FFT convolution of a density volume    *)
(*                    with the cached kernel eigenvalues (lines 38-75)     *)
(*   gen_kernel_eigs  the kernel cache: file name, hit/miss, tile by tile  *)
(*                    evaluation, save (lines 77-112)                      *)
(*                                                                         *)
(* Arithmetic is exact where the program's is, and rounds where the program *)
(* rounds to 32-bit floats.  A complex number is the pair <<re, im>>, the   *)
(* two channels of the last tensor axis in the source.  The layers modelled *)
(* are squares of side 1 or 2, so that the padded extents are 2 or 4, every *)
(* root of unity of the transforms is one of 1, -i, -1, i, and the factor   *)
(* sqrt(2 ny * 2 nx) of the unitary transforms is 2 or 4.                   *)
(*                                                                         *)
(* Two collaborators are not part of src/decoder.py: the evaluator prism.gz *)
(* and the operator tptz.GToepOperator.  The evaluator is an input, a table *)
(* of values.  The operator is modelled as section 4.1.f of the design      *)
(* describes it: zero padding, then the unitary transform.                  *)
(***************************************************************************)
EXTENDS Integers, Sequences, FiniteSets, TLC

\* ------------------------------------------------------------------ bounds
MaxLayers == 2
MaxImpulses == 2
\* The constructor calls of one run of the cache machine, over all processes.
MaxConstructions == 3
\* The batch sizes of the volumes passed to forward.
BatchSizes == {1, 2}
\* The side ny = nx of the modelled layers (see the header).
Sides == {1, 2}

\* --------------------------------------------------------------- variables
VARIABLES
  nzyx,         \* self.nzyx of the decoder the forward calls go to
  dzyx,         \* self.dzyx of that decoder (tenths of a length unit)
  gz,           \* the evaluator: gz[i][t] is its value for tile t of layer i
  kernel_eigs,  \* self.kernel_eigs, the registered buffer
  data_input,   \* the argument of the last forward call
  outcome,      \* "none" | "returned" | the exception of the last forward call
  final_res,    \* what the last forward call returned
  input_after,  \* the argument tensor as the last forward call left it
  prev_input,   \* the argument of the forward call before the last
  prev_res,     \* what that call returned
  files,        \* the cache directory: file name -> the file
  procs,        \* the processes constructing decoders
  firstEntry,   \* per file name, the entry of the first completed generation
  keyA, keyB,   \* two geometry descriptors and
  fnameA, fnameB \* the file names gen_kernel_eigs builds for them

vars == <<nzyx, dzyx, gz, kernel_eigs, data_input, outcome, final_res, input_after,
          prev_input, prev_res, files, procs, firstEntry, keyA, keyB, fnameA, fnameB>>

fwdVars == <<nzyx, dzyx, gz, kernel_eigs, data_input, outcome, final_res, input_after,
             prev_input, prev_res>>
cacheVars == <<files, procs, firstEntry>>
keyVars == <<keyA, keyB, fnameA, fnameB>>

\* ------------------------------------------------------------ complex pairs
Re(z) == z[1]
Im(z) == z[2]
CZero == <<0, 0>>
CAdd(a, b) == <<Re(a) + Re(b), Im(a) + Im(b)>>
\* lines 62-65: the complex product written out on the two channels
CMul(a, b) == <<Re(a) * Re(b) - Im(a) * Im(b), Re(a) * Im(b) + Im(a) * Re(b)>>

\* The function f with its elements written out: the identity on functions.
Force(f) == f @@ <<>>

Min(a, b) == IF a <= b THEN a ELSE b
Abs(a) == IF a < 0 THEN -a ELSE a

\* exp(-2 pi i k / n) for n in {2, 4}; its conjugate when inverse
UnitRoot(n, k, inverse) ==
  LET q == (k * (4 \div n)) % 4
      w == CASE q = 0 -> <<1, 0>>
             [] q = 1 -> <<0, -1>>
             [] q = 2 -> <<-1, 0>>
             [] q = 3 -> <<0, 1>>
  IN IF inverse THEN <<Re(w), -Im(w)>> ELSE w

RECURSIVE CSum(_, _)
\* f[0] + ... + f[n-1]
CSum(f, n) == IF n = 0 THEN CZero ELSE CAdd(CSum(f, n - 1), f[n - 1])

\* The one-dimensional transforms of the rows of an m x n complex matrix.
DftRows(x, m, n, inverse) ==
  Force([r \in 0..(m - 1) |-> Force([v \in 0..(n - 1) |->
    CSum([c \in 0..(n - 1) |-> CMul(x[r][c], UnitRoot(n, v * c, inverse))], n)])])

\* The one-dimensional transforms of its columns.
DftCols(x, m, n, inverse) ==
  Force([u \in 0..(m - 1) |-> Force([v \in 0..(n - 1) |->
    CSum([r \in 0..(m - 1) |-> CMul(x[r][v], UnitRoot(m, u * r, inverse))], m)])])

\* The unnormalised two-dimensional transform of an m x n complex matrix.
Dft2(x, m, n, inverse) == DftCols(DftRows(x, m, n, inverse), m, n, inverse)

\* The number of values of a float32 significand: 2^24.
Significand == 16777216

RECURSIVE Ulp(_, _)
\* The distance between neighbouring float32 values at the magnitude v >= 0,
\* no less than sp.
Ulp(v, sp) == IF v \div sp < Significand THEN sp ELSE Ulp(v, 2 * sp)

\* The float32 nearest to v >= 0, the one of even significand of two equally near.
RoundToEven(v) ==
  LET sp == Ulp(v, 1)
      q == v \div sp
      r == v % sp
  IN IF 2 * r < sp THEN q * sp
     ELSE IF 2 * r > sp THEN (q + 1) * sp
     ELSE IF q % 2 = 0 THEN q * sp ELSE (q + 1) * sp

\* torch.as_tensor(v, dtype=torch.float32) (lines 109-110) and the store into
\* a float32 tensor (lines 66-67).  What is rounded is the value times a power
\* of two, which the rounding commutes with.
Float32(v) == IF v < 0 THEN -RoundToEven(-v) ELSE RoundToEven(v)

\* An m x n complex matrix stored into a float32 tensor, channel by channel.
CastFloat32(x, m, n) ==
  Force([u \in 0..(m - 1) |-> Force([v \in 0..(n - 1) |->
    <<Float32(Re(x[u][v])), Float32(Im(x[u][v]))>>])])

\* The square root of a square.
Sqrt(k) == CHOOSE s \in 1..k : s * s = k

\* Tensor.fft(2, normalized=True) (line 60).  The transform is unitary: the
\* source's value is this one divided by sqrt(m * n), a power of two.  The
\* factor is carried through the product of lines 62-65, which is linear in
\* it, and through the float32 store of lines 66-67 to Ifft2.
Fft2(x, m, n) == Dft2(x, m, n, FALSE)

\* The matrix y divided by m * n.
Scaled(y, m, n) ==
  Force([u \in 0..(m - 1) |-> Force([v \in 0..(n - 1) |->
    <<Re(y[u][v]) \div (m * n), Im(y[u][v]) \div (m * n)>>])])

\* Tensor.ifft(2, normalized=True) (line 68) of the float32 tensor res, with
\* the factor 1/sqrt(m * n) of its own and the one Fft2 carried over: a
\* division by m * n in all.  The result is a float32 tensor; the rounding
\* inside the transform is not modelled.
Ifft2(x, m, n) == CastFloat32(Scaled(Dft2(x, m, n, TRUE), m, n), m, n)

\* ------------------------------------------------------------------ tensors
\* A tensor is its shape and its elements, indexed from 0 as in the source.
\* The tensor of the given shape with 1 at the cells S and 0 elsewhere.
Sparse(shape, S) ==
  [shape |-> shape,
   at |-> Force([b \in 0..(shape[1] - 1) |-> Force([l \in 0..(shape[2] - 1) |->
            Force([r \in 0..(shape[3] - 1) |->
              Force([c \in 0..(shape[4] - 1) |->
                IF <<b, l, r, c>> \in S THEN 1 ELSE 0])])])])]

\* torch.zeros_like(data_input) (line 47)
ZerosLike(t) == Sparse(t.shape, {})

\* --------------------------------------------------- kernel generation (pure)
\* The default cell sizes of the constructor (line 27), in tenths of a unit.
DefaultDzyx == <<500, 1000, 1000>>

\* lines 103-107: calc_kernel(t) is prism.gz(xp[0:1], yp[0:1], zp[0:1],
\* [mesh[t]]), the evaluator's value for tile t of the layer; pool.map gathers
\* the values in tile order and reshape(1, ny, nx) lays them out row by row.
Kernel0(ev, n, i) ==
  Force([row \in 0..(n[2] - 1) |->
    Force([col \in 0..(n[3] - 1) |-> ev[i][row * n[3] + col]])])

\* Section 4.1.f, first half: the kernel matrix embedded by zero padding to
\* twice each horizontal dimension.
PadKernel(kernel0, ny, nx) ==
  Force([a \in 0..(2 * ny - 1) |-> Force([b \in 0..(2 * nx - 1) |->
    IF a < ny /\ b < nx THEN <<kernel0[a][b], 0>> ELSE CZero])])

\* Section 4.1.f, second half: the unitary two-dimensional transform, the
\* sums divided by sqrt(m * n).  The evaluator's values are multiples of the
\* divisor, so the division is exact.
UnitaryDft2(x, m, n) ==
  LET y == Dft2(x, m, n, FALSE)
  IN Force([u \in 0..(m - 1) |-> Force([v \in 0..(n - 1) |->
       <<Re(y[u][v]) \div Sqrt(m * n), Im(y[u][v]) \div Sqrt(m * n)>>])])

\* tptz.GToepOperator(kernel0).eigs[0] (line 108), as section 4.1.f has it.
GToepOperatorEigs(kernel0, ny, nx) ==
  UnitaryDft2(PadKernel(kernel0, ny, nx), 2 * ny, 2 * nx)

\* One pass of the loop of lines 86-110: layer i's slice of kernel_eigs, its
\* real and imaginary parts stored as float32 (lines 109-110).
KernelLayer(ev, n, i) ==
  CastFloat32(GToepOperatorEigs(Kernel0(ev, n, i), n[2], n[3]), 2 * n[2], 2 * n[3])

\* lines 85-110 when no evaluation raises: the whole entry.
GenKernelEigs(ev, n) ==
  [shape |-> <<n[1], 2 * n[2], 2 * n[3], 2>>,
   at |-> Force([i \in 0..(n[1] - 1) |-> KernelLayer(ev, n, i)])]

\* ------------------------------------------------------------------ forward
\* The state the loop of forward works on: the tensors it can reach and the
\* exception it raised, if any.
ForwardStart(self_nzyx, self_kernel_eigs, input) ==
  [nzyx |-> self_nzyx, kernel_eigs |-> self_kernel_eigs, data_input |-> input,
   final_res |-> ZerosLike(input), error |-> "none"]

\* line 59: expand_v[:, :ny, :nx, 0] = data_input[:, ilayer, :, :] copies when
\* the two shapes agree and broadcasts a source extent of 1; anything else
\* raises.  The target's extent is cut to that of expand_v.
AssignFits(target, source) == source = target \/ source = 1

\* ExpandV reading layer 0 whatever the loop index: data_input[:, 0, :, :].
ExpandVFirstLayer(st, b, ilayer) ==
  Force([r \in 0..(2 * st.data_input.shape[3] - 1) |->
    Force([c \in 0..(2 * st.data_input.shape[4] - 1) |->
      IF r < st.data_input.shape[3] /\ c < st.data_input.shape[4]
      THEN <<st.data_input.at[b][0][r][c], 0>>
      ELSE CZero])])

\* lines 53-59: the zero buffer of twice the input's extent, with the layer in
\* the real channel of its top left corner.
ExpandV(st, b, ilayer) ==
  LET R == st.data_input.shape[3]
      C == st.data_input.shape[4]
      tr == Min(st.nzyx[2], 2 * R)
      tc == Min(st.nzyx[3], 2 * C)
  IN Force([r \in 0..(2 * R - 1) |-> Force([c \in 0..(2 * C - 1) |->
        IF r < tr /\ c < tc
        THEN <<st.data_input.at[b][ilayer][IF R = 1 THEN 0 ELSE r][IF C = 1 THEN 0 ELSE c], 0>>
        ELSE CZero])])

\* lines 62-65: the product of the transformed layer and the layer's kernel
\* eigenvalues, element by element, in double precision.
EigsProduct(eigs_layer_i, kernel_layer, m, n) ==
  Force([u \in 0..(m - 1) |-> Force([v \in 0..(n - 1) |->
    CMul(eigs_layer_i[u][v], kernel_layer[u][v])])])

\* lines 60-68 for one batch element: transform, multiply by the layer's
\* kernel eigenvalues, store into the float32 tensor res (lines 49, 66-67),
\* transform back.
LayerRes(st, b, ilayer) ==
  Ifft2(CastFloat32(EigsProduct(Fft2(ExpandV(st, b, ilayer),
                                     2 * st.data_input.shape[3], 2 * st.data_input.shape[4]),
                                st.kernel_eigs.at[ilayer],
                                2 * st.data_input.shape[3], 2 * st.data_input.shape[4]),
                    2 * st.data_input.shape[3], 2 * st.data_input.shape[4]),
        2 * st.data_input.shape[3], 2 * st.data_input.shape[4])

\* res[:, :shape[1]//2, :shape[2]//2, 0] of line 74 for one batch element
Quadrant(res, rows, cols) ==
  Force([r \in 0..(rows \div 2 - 1) |-> Force([c \in 0..(cols \div 2 - 1) |->
    Re(res[r][c])])])

\* WriteLayer writing the layer's field into the argument as well.
WriteLayerInPlace(st, ilayer) ==
  [st EXCEPT !.final_res.at =
     Force([b \in 0..(st.data_input.shape[1] - 1) |->
       [st.final_res.at[b] EXCEPT ![ilayer] =
          Quadrant(LayerRes(st, b, ilayer), 2 * st.nzyx[2], 2 * st.nzyx[3])]]),
           !.data_input.at =
     Force([b \in 0..(st.data_input.shape[1] - 1) |->
       [st.data_input.at[b] EXCEPT ![ilayer] =
          Quadrant(LayerRes(st, b, ilayer), 2 * st.nzyx[2], 2 * st.nzyx[3])]])]

\* line 74: final_res[:, ilayer, :, :] = res[:, :shape[1]//2, :shape[2]//2, 0]
WriteLayer(st, ilayer) ==
  [st EXCEPT !.final_res.at =
     Force([b \in 0..(st.data_input.shape[1] - 1) |->
       [st.final_res.at[b] EXCEPT ![ilayer] =
          Quadrant(LayerRes(st, b, ilayer), 2 * st.nzyx[2], 2 * st.nzyx[3])]])]

\* One pass of the loop of lines 48-74, with the exceptions in the order the
\* statements raise them.
ForwardLayer(st, ilayer) ==
  LET R == st.data_input.shape[3]
      C == st.data_input.shape[4]
  IN IF ~(AssignFits(Min(st.nzyx[2], 2 * R), R) /\ AssignFits(Min(st.nzyx[3], 2 * C), C))
     THEN [st EXCEPT !.error = "RuntimeError: shape mismatch in assignment"]
     ELSE IF ilayer >= st.kernel_eigs.shape[1]
     THEN [st EXCEPT !.error = "IndexError: kernel_eigs layer"]
     ELSE IF 2 * R # st.kernel_eigs.shape[2] \/ 2 * C # st.kernel_eigs.shape[3]
     THEN [st EXCEPT !.error = "RuntimeError: shape mismatch in product"]
     ELSE WriteLayer(st, ilayer)

RECURSIVE ForwardLoop(_, _)
\* for ilayer in range(data_input.shape[1]) (line 48)
ForwardLoop(st, ilayer) ==
  IF st.error # "none" \/ ilayer >= st.data_input.shape[2]
  THEN st
  ELSE ForwardLoop(ForwardLayer(st, ilayer), ilayer + 1)

\* GravDecoder.forward (lines 38-75)
forward(self_nzyx, self_kernel_eigs, input) ==
  ForwardLoop(ForwardStart(self_nzyx, self_kernel_eigs, input), 0)

\* --------------------------------------------------- the forward calls' inputs
NoTensor == [shape |-> <<0, 0, 0, 0>>, at |-> <<>>]

\* The cells of batch element b of a volume.
Cells(shape, b) ==
  {b} \X (0..(shape[2] - 1)) \X (0..(shape[3] - 1)) \X (0..(shape[4] - 1))

RECURSIVE CellSets(_, _)
\* The sets of at most k of the given cells.
CellSets(cells, k) ==
  IF k = 0 THEN {{}}
  ELSE LET smaller == CellSets(cells, k - 1)
       IN smaller \cup {S \cup {c} : S \in smaller, c \in cells}

\* The volumes of a shape with at most k unit-density cells, all of them in
\* one batch element.
SparseVolumes(shape, k) ==
  {Sparse(shape, S) : S \in UNION {CellSets(Cells(shape, b), k) : b \in 0..(shape[1] - 1)}}

\* The cells of unit density of a volume.
Support(t) ==
  {c \in UNION {Cells(t.shape, b) : b \in 0..(t.shape[1] - 1)} :
     t.at[c[1]][c[2]][c[3]][c[4]] # 0}

\* The geometries of the decoders the forward calls go to: square layers.
Geometries == {<<l, side, side>> : l \in 1..MaxLayers, side \in Sides}

\* An evaluator whose value is peak for tile 0 of layer 0 and falls by fall
\* from one tile to the next and from the last tile of a layer to the first
\* of the layer below: no two tiles of a geometry have the same value.
FallOff(n, peak, fall) ==
  Force([i \in 0..(n[1] - 1) |-> Force([t \in 0..(n[2] * n[3] - 1) |->
    peak - fall * (i * n[2] * n[3] + t)])])

\* The peak values of the evaluators enumerated.  The large one, 2^27 + 8, is
\* for layers of one tile, where the sums of the transforms stay below 2^31;
\* half of it is no float32.
GzPeaks(n) == IF n[2] * n[3] = 1 THEN {1024, 134217736} ELSE {1024, 4096}

\* The evaluators enumerated for a geometry.  The physical evaluator is a
\* pure function from a tile to a real number (section 6); its values here
\* are multiples of 8 for layers of one tile and of 64 for layers of four.
Evaluators(n) == {FallOff(n, peak, 64) : peak \in GzPeaks(n)}

\* The shapes a caller may pass: any layer count from none to one too many,
\* any row and column count from 1 to one more than the largest side.
InputShapes(n) == BatchSizes \X (0..(n[1] + 1)) \X (1..3) \X (1..3)

\* The volumes a caller passes: of a shape whose rows and columns are the
\* geometry's and that has no layer too many, every sparse volume; of any
\* other shape, the zero volume.
Inputs(n) ==
  UNION {SparseVolumes(sh, IF sh[2] <= n[1] /\ sh[3] = n[2] /\ sh[4] = n[3]
                           THEN MaxImpulses ELSE 0)
           : sh \in InputShapes(n)}

\* ------------------------------------------------------- the forward machine
NoCache ==
  /\ files = <<>>
  /\ procs = <<>>
  /\ firstEntry = <<>>

NoKeys ==
  /\ keyA = <<>>
  /\ keyB = <<>>
  /\ fnameA = ""
  /\ fnameB = ""

\* A decoder constructed (lines 27-36) for the geometry n with the default
\* cell sizes when the evaluator is ev, and a caller holding the volume input.
Constructed(n, ev, input) ==
  /\ nzyx = n
  /\ dzyx = DefaultDzyx
  /\ gz = ev
  /\ kernel_eigs = GenKernelEigs(ev, n)
  /\ data_input = input
  /\ outcome = "none"
  /\ final_res = NoTensor
  /\ input_after = input
  /\ prev_input = NoTensor
  /\ prev_res = NoTensor
  /\ NoCache
  /\ NoKeys

InitForward ==
  \E n \in Geometries : \E ev \in Evaluators(n) : \E input \in Inputs(n) :
    Constructed(n, ev, input)

\* One call of forward on the caller's volume: the whole method, to its
\* return or its exception.
Forward ==
  \E st \in {forward(nzyx, kernel_eigs, data_input)} :
     /\ outcome' = IF st.error = "none" THEN "returned" ELSE st.error
     /\ final_res' = IF st.error = "none" THEN st.final_res ELSE NoTensor
     /\ input_after' = st.data_input
     /\ kernel_eigs' = st.kernel_eigs
     /\ UNCHANGED <<nzyx, dzyx, gz, data_input, prev_input, prev_res, cacheVars, keyVars>>

NextForward == Forward

SpecForward == InitForward /\ [][NextForward]_vars

\* The caller of a decoder keeps the last call's volume and result, changes
\* the density of one cell and calls again.
InitLayers ==
  \E n \in Geometries : \E ev \in Evaluators(n) :
    \E input \in SparseVolumes(<<1, n[1], n[2], n[3]>>, MaxImpulses) :
      Constructed(n, ev, input)

Modify(cell) ==
  LET S == Support(data_input)
      T == IF cell \in S THEN S \ {cell} ELSE S \cup {cell}
  IN /\ outcome = "returned"
     /\ Cardinality(T) <= MaxImpulses
     /\ prev_input' = data_input
     /\ prev_res' = final_res
     /\ data_input' = Sparse(data_input.shape, T)
     /\ input_after' = data_input'
     /\ outcome' = "none"
     /\ final_res' = NoTensor
     /\ UNCHANGED <<nzyx, dzyx, gz, kernel_eigs, cacheVars, keyVars>>

NextLayers ==
  \/ outcome = "none" /\ Forward
  \/ \E cell \in Cells(data_input.shape, 0) : Modify(cell)

SpecLayers == InitLayers /\ [][NextLayers]_vars

\* ------------------------------------------------------- claims about forward
\* The input's layer, row and column counts are those of the configured geometry.
ShapeMatches == <<data_input.shape[2], data_input.shape[3], data_input.shape[4]>> = nzyx

\* C1 (as claimed): a forward call on a volume whose layer, row or column
\* count differs from nzyx raises; it never returns a result.
C1_MismatchAlwaysRaises ==
  (outcome # "none" /\ ~ShapeMatches) => outcome # "returned"

\* The true, non-circular convolution of the slice x with the kernel matrix
\* of layer i at row p, column q: the cell at (r, s) contributes the kernel's
\* value at the offset (p - r, q - s) when that offset is in the matrix.  No
\* transform, no padding, no period.
DirectField(x, i, p, q) ==
  LET term(k) ==
        LET r == k \div nzyx[3]
            s == k % nzyx[3]
        IN IF r <= p /\ s <= q
           THEN x[r][s] * Kernel0(gz, nzyx, i)[p - r][q - s]
           ELSE 0
      sum[k \in 0..(nzyx[2] * nzyx[3])] == IF k = 0 THEN 0 ELSE sum[k - 1] + term(k - 1)
  IN sum[nzyx[2] * nzyx[3]]

\* C7 (as claimed): what forward extracts from the padded, periodic
\* convolution is, at every cell of every layer, the true non-circular
\* convolution of the layer's density with the layer's kernel matrix.
C7_NoWraparound ==
  (outcome = "returned" /\ ShapeMatches) =>
    \A b \in 0..(data_input.shape[1] - 1) : \A i \in 0..(nzyx[1] - 1) :
      \A p \in 0..(nzyx[2] - 1) : \A q \in 0..(nzyx[3] - 1) :
        final_res.at[b][i][p][q] = DirectField(data_input.at[b][i], i, p, q)

\* C8 (as claimed): for a volume with a single unit cell, at (r, c) of layer
\* i, the layer-i output is the layer's kernel matrix with its peak moved to
\* (r, c): the value at (p, q) is the kernel's value at the offset
\* (|p - r|, |q - c|), above and left of the cell as well as below and right.
C8_ImpulseResponse ==
  (outcome = "returned" /\ ShapeMatches /\ Cardinality(Support(data_input)) = 1) =>
    \A cell \in Support(data_input) :
      \A p \in 0..(nzyx[2] - 1) : \A q \in 0..(nzyx[3] - 1) :
        final_res.at[cell[1]][cell[2]][p][q]
          = Kernel0(gz, nzyx, cell[2])[Abs(p - cell[3])][Abs(q - cell[4])]

\* C10: a forward call on a volume of the geometry's shape returns a volume of
\* that shape, every layer slice of it of the full extent, and leaves its
\* argument and kernel_eigs as they were: kernel_eigs is still the entry of
\* the construction, of shape (L, 2R, 2C, 2).
C10_ShapeAndPurity ==
  (outcome = "returned" /\ ShapeMatches) =>
    /\ final_res.shape = data_input.shape
    /\ DOMAIN final_res.at = 0..(data_input.shape[1] - 1)
    /\ \A b \in DOMAIN final_res.at :
         /\ DOMAIN final_res.at[b] = 0..(nzyx[1] - 1)
         /\ \A l \in DOMAIN final_res.at[b] :
              /\ DOMAIN final_res.at[b][l] = 0..(nzyx[2] - 1)
              /\ \A r \in DOMAIN final_res.at[b][l] :
                   DOMAIN final_res.at[b][l][r] = 0..(nzyx[3] - 1)
    /\ input_after = data_input
    /\ kernel_eigs = GenKernelEigs(gz, nzyx)
    /\ kernel_eigs.shape = <<nzyx[1], 2 * nzyx[2], 2 * nzyx[3], 2>>

\* A batch of two volumes of two layers of 2 x 2 cells, with a field that is not zero.
C10_Witness ==
  /\ outcome = "returned"
  /\ data_input.shape = <<2, 2, 2, 2>>
  /\ nzyx = <<2, 2, 2>>
  /\ final_res.at[1][1][0][1] # 0

\* C2: two volumes of the geometry's shape are passed one after the other; at
\* every layer where the two agree, the two outputs agree.
C2_LayerIndependence ==
  (outcome = "returned" /\ prev_res # NoTensor) =>
    \A b \in 0..(data_input.shape[1] - 1) : \A j \in 0..(nzyx[1] - 1) :
      prev_input.at[b][j] = data_input.at[b][j] => prev_res.at[b][j] = final_res.at[b][j]

\* The two volumes differ in layer i, where the outputs differ too, and agree
\* in another layer j, whose density and field are not zero.
C2_Witness ==
  /\ outcome = "returned" /\ prev_res # NoTensor
  /\ \E i \in 0..(nzyx[1] - 1) : \E j \in 0..(nzyx[1] - 1) :
       /\ i # j
       /\ prev_input.at[0][i] # data_input.at[0][i]
       /\ prev_res.at[0][i] # final_res.at[0][i]
       /\ prev_input.at[0][j] = data_input.at[0][j]
       /\ \E c \in Support(data_input) : c[2] = j
       /\ final_res.at[0][j][0][0] # 0

\* ------------------------------------------------------------ the cache file name
Digits == <<"0", "1", "2", "3", "4", "5", "6", "7", "8", "9">>

RECURSIVE FormatNat(_)
\* str(k) for an integer k >= 0
FormatNat(k) ==
  IF k < 10 THEN Digits[k + 1] ELSE FormatNat(k \div 10) \o Digits[(k % 10) + 1]

\* '{}'.format(k) for an integer k
FormatInt(k) == IF k < 0 THEN "-" \o FormatNat(-k) ELSE FormatNat(k)

\* The integer nearest to t / 10 for t >= 0, the even one of two equally near.
RoundHalfEven(t) ==
  LET q == t \div 10
      r == t % 10
  IN IF r < 5 THEN q
     ELSE IF r > 5 THEN q + 1
     ELSE IF q % 2 = 0 THEN q ELSE q + 1

\* '{:.0f}'.format(x) for the cell size x = t / 10: no decimal place is kept,
\* and a negative size keeps its sign even when it rounds to zero.
FormatFixed0(t) ==
  IF t < 0 THEN "-" \o FormatNat(RoundHalfEven(-t)) ELSE FormatNat(RoundHalfEven(t))

\* line 78: '{}x{}x{}_{:.0f}x{:.0f}x{:.0f}_lbl.pt'.format(*self.nzyx, *self.dzyx);
\* line 80 puts it under data_dir, the same for every decoder modelled.
fname(d, n) ==
  FormatInt(n[1]) \o "x" \o FormatInt(n[2]) \o "x" \o FormatInt(n[3]) \o "_"
  \o FormatFixed0(d[1]) \o "x" \o FormatFixed0(d[2]) \o "x" \o FormatFixed0(d[3])
  \o "_lbl.pt"

\* ------------------------------------------------------- the file name machine
\* Cell counts and cell sizes (in tenths) of the descriptors compared.
KeyCounts == {<<1, 11, 1>>, <<11, 1, 1>>, <<1, 1, 11>>, <<2, 2, 2>>}
KeySizes == {5, 15, 25, 500, 504} \X {1000} \X {1000, 1004}
Descriptors == KeySizes \X KeyCounts

NoForward ==
  /\ nzyx = <<>>
  /\ dzyx = <<>>
  /\ kernel_eigs = NoTensor
  /\ data_input = NoTensor
  /\ outcome = "none"
  /\ final_res = NoTensor
  /\ input_after = NoTensor
  /\ prev_input = NoTensor
  /\ prev_res = NoTensor

InitKey ==
  /\ keyA \in Descriptors
  /\ keyB \in Descriptors
  /\ fnameA = ""
  /\ fnameB = ""
  /\ gz = <<>>
  /\ NoForward
  /\ NoCache

\* Two decoders are constructed for the two descriptors: each builds its file name.
BuildNames ==
  /\ fnameA = ""
  /\ fnameA' = fname(keyA[1], keyA[2])
  /\ fnameB' = fname(keyB[1], keyB[2])
  /\ UNCHANGED <<keyA, keyB, fwdVars, cacheVars>>

NextKey == BuildNames

SpecKey == InitKey /\ [][NextKey]_vars

\* A descriptor as the claim takes it: positive integer counts, positive sizes
\* (every size here has at most one decimal place).
ValidDescriptor(k) ==
  /\ \A j \in 1..3 : k[1][j] > 0
  /\ \A j \in 1..3 : k[2][j] > 0

\* C6 (as claimed): two different valid descriptors get two different file names.
C6_FileNamesInjective ==
  (fnameA # "" /\ ValidDescriptor(keyA) /\ ValidDescriptor(keyB) /\ keyA # keyB)
    => fnameA # fnameB

\* ------------------------------------------------------------ the cache machine
\* The processes that construct decoders over one cache directory.
Procs == {"p1", "p2"}

\* The (dzyx, nzyx) the constructor is called with: a geometry of MaxLayers
\* layers, one whose layer size differs from it in the first decimal place,
\* a cell size of zero, a layer count of zero and a negative layer count.
CacheConfigs ==
  {<<<<500, 1000, 1000>>, <<MaxLayers, 2, 2>>>>,
   <<<<504, 1000, 1000>>, <<MaxLayers, 2, 2>>>>,
   <<<<0, 1000, 1000>>, <<1, 1, 1>>>>,
   <<<<500, 1000, 1000>>, <<0, 1, 2>>>>,
   <<<<500, 1000, 1000>>, <<-1, 1, 2>>>>}

NonPositive(cfg) == \E j \in 1..3 : cfg[1][j] <= 0 \/ cfg[2][j] <= 0

\* A process before its first constructor call.
IdleProc ==
  [pc |-> "idle", cfg |-> <<>>, i |-> 0, acc |-> <<>>, calls |-> 0, wrote |-> FALSE,
   hit |-> FALSE, later |-> FALSE, kernel_eigs |-> NoTensor, error |-> "none", ctor |-> 0]

\* No file.
NoFile == [exists |-> FALSE, writers |-> {}, entry |-> NoTensor, tiles |-> 0, cfg |-> <<>>]

\* The file of a name, as fname.is_file() and torch.load find it.
FileAt(fs, name) == IF name \in DOMAIN fs THEN fs[name] ELSE NoFile

\* A file is published whole when it exists and no torch.save is under way on it.
Complete(f) == f.exists /\ f.writers = {}

ProcFname(pr) == fname(pr.cfg[1], pr.cfg[2])

\* The tiles of one layer: len(mesh) for the mesh of shape (1, ny, nx) (line 94).
TilesPerLayer(cfg) == cfg[2][2] * cfg[2][3]

InitCache ==
  /\ files = <<>>
  /\ procs = [p \in Procs |-> IdleProc]
  /\ firstEntry = <<>>
  /\ gz \in Evaluators(<<MaxLayers, 2, 2>>)
  /\ NoForward
  /\ NoKeys

\* lines 27-36 up to the call of gen_kernel_eigs, and line 78-80: the
\* constructor stores its arguments as they are and builds the file name.
Enter(pr, cfg, generated) ==
  [IdleProc EXCEPT !.pc = "is_file", !.cfg = cfg, !.later = generated, !.ctor = pr.ctor + 1]

\* line 81: fname.is_file()
IsFileStep(pr, f) == [pr EXCEPT !.pc = IF f.exists THEN "load" ELSE "alloc"]

\* What torch.load (line 82) can find in a file, TRUE for a whole entry.  That
\* is decided by the bytes in the file, not by who has it open: a file that a
\* torch.save has opened and nobody has written since is empty; a file written
\* and closed by one process while another still has it open holds the whole
\* entry until the other begins to write, and a broken one from then on.
LoadResults(f) ==
  IF f.entry = NoTensor THEN {FALSE}
  ELSE IF f.writers = {} THEN {TRUE}
  ELSE {TRUE, FALSE}

\* line 82 and line 112: torch.load(fname), then register_buffer.  A file that
\* does not hold a whole entry does not load: torch.load raises.
LoadStep(pr, f, whole) ==
  IF whole
  THEN [pr EXCEPT !.pc = "done", !.hit = TRUE, !.kernel_eigs = f.entry]
  ELSE [pr EXCEPT !.pc = "failed", !.error = "torch.load: file not whole"]

\* lines 84-85: np.ones((ny, nx)) and torch.empty(nz, 2 ny, 2 nx, 2) raise on
\* a negative dimension.
AllocStep(pr) ==
  IF pr.cfg[2][1] < 0 \/ pr.cfg[2][2] < 0 \/ pr.cfg[2][3] < 0
  THEN [pr EXCEPT !.pc = "failed", !.error = "negative dimension"]
  ELSE [pr EXCEPT !.pc = "layers", !.i = 0, !.acc = <<>>]

\* lines 87-110 for layer i when every tile evaluation returns: pool.map has
\* called the evaluator once per tile, and the layer's eigenvalues are stored.
LayerDone(pr, ev) ==
  [pr EXCEPT !.i = pr.i + 1,
             !.calls = pr.calls + TilesPerLayer(pr.cfg),
             !.acc = Append(pr.acc, KernelLayer(ev, pr.cfg[2], pr.i))]

\* LayerRaises with the exception caught and the loop left: the layers
\* evaluated so far go on to torch.save.
LayerRaisesSwallowed(pr, t) ==
  [pr EXCEPT !.i = pr.cfg[2][1], !.calls = pr.calls + TilesPerLayer(pr.cfg)]

\* lines 105-106 when the evaluation of tile t raises: pool.map has handed
\* every tile of the layer to the workers, one tile a task, and raises in the
\* parent once all of them have been evaluated; the with block closes the
\* pool and the exception leaves gen_kernel_eigs and the constructor.
LayerRaises(pr, t) ==
  [pr EXCEPT !.pc = "failed", !.error = "evaluator",
             !.calls = pr.calls + TilesPerLayer(pr.cfg)]

\* The entry built by the loop of lines 86-110.
BuiltEntry(pr) ==
  [shape |-> <<pr.cfg[2][1], 2 * pr.cfg[2][2], 2 * pr.cfg[2][3], 2>>,
   at |-> Force([i \in 0..(Len(pr.acc) - 1) |-> pr.acc[i + 1]])]

\* line 111, the start of torch.save(kernel_eigs, fname): the file is opened
\* for writing at its final name, which creates or truncates it.
SaveOpenFile(pr, f, p) ==
  [exists |-> TRUE, writers |-> f.writers \cup {p}, entry |-> NoTensor,
   tiles |-> pr.calls, cfg |-> pr.cfg]

\* line 111, the end of torch.save: everything is written and the file closed.
SaveCloseFile(pr, f, p) ==
  [exists |-> TRUE, writers |-> f.writers \ {p}, entry |-> BuiltEntry(pr),
   tiles |-> pr.calls, cfg |-> pr.cfg]

Started == LET sum[S \in SUBSET Procs] ==
                 IF S = {} THEN 0
                 ELSE LET q == CHOOSE x \in S : TRUE IN procs[q].ctor + sum[S \ {q}]
           IN sum[Procs]

Finished(pr) == pr.pc \in {"idle", "done", "failed"}

\* GravDecoder(dzyx, nzyx, data_dir) is called in process p.
Construct(p, cfg) ==
  /\ Finished(procs[p])
  /\ Started < MaxConstructions
  /\ procs' = [procs EXCEPT ![p] = Enter(procs[p], cfg, cfg \in DOMAIN firstEntry)]
  /\ UNCHANGED <<files, firstEntry, fwdVars, keyVars>>

IsFile(p) ==
  /\ procs[p].pc = "is_file"
  /\ procs' = [procs EXCEPT ![p] = IsFileStep(procs[p], FileAt(files, ProcFname(procs[p])))]
  /\ UNCHANGED <<files, firstEntry, fwdVars, keyVars>>

Load(p) ==
  /\ procs[p].pc = "load"
  /\ \E whole \in LoadResults(FileAt(files, ProcFname(procs[p]))) :
       procs' = [procs EXCEPT ![p] = LoadStep(procs[p], FileAt(files, ProcFname(procs[p])), whole)]
  /\ UNCHANGED <<files, firstEntry, fwdVars, keyVars>>

Alloc(p) ==
  /\ procs[p].pc = "alloc"
  /\ procs' = [procs EXCEPT ![p] = AllocStep(procs[p])]
  /\ UNCHANGED <<files, firstEntry, fwdVars, keyVars>>

\* One pass of the loop of lines 86-110: every tile evaluation returns, or one raises.
Layer(p) ==
  /\ procs[p].pc = "layers"
  /\ procs[p].i < procs[p].cfg[2][1]
  /\ \/ procs' = [procs EXCEPT ![p] = LayerDone(procs[p], gz)]
     \/ \E t \in 0..(TilesPerLayer(procs[p].cfg) - 1) :
          procs' = [procs EXCEPT ![p] = LayerRaises(procs[p], t)]
  /\ UNCHANGED <<files, firstEntry, fwdVars, keyVars>>

SaveOpen(p) ==
  /\ procs[p].pc = "layers"
  /\ procs[p].i >= procs[p].cfg[2][1]
  /\ procs' = [procs EXCEPT ![p].pc = "saving", ![p].wrote = TRUE]
  /\ files' = (ProcFname(procs[p])
                 :> SaveOpenFile(procs[p], FileAt(files, ProcFname(procs[p])), p)) @@ files
  /\ UNCHANGED <<firstEntry, fwdVars, keyVars>>

\* The end of torch.save, then line 112.
SaveClose(p) ==
  /\ procs[p].pc = "saving"
  /\ procs' = [procs EXCEPT ![p].pc = "done", ![p].kernel_eigs = BuiltEntry(procs[p])]
  /\ files' = (ProcFname(procs[p])
                 :> SaveCloseFile(procs[p], FileAt(files, ProcFname(procs[p])), p)) @@ files
  /\ firstEntry' = IF procs[p].cfg \in DOMAIN firstEntry THEN firstEntry
                   ELSE (procs[p].cfg :> BuiltEntry(procs[p])) @@ firstEntry
  /\ UNCHANGED <<fwdVars, keyVars>>

NextCache ==
  \E p \in Procs :
    \/ \E cfg \in CacheConfigs : Construct(p, cfg)
    \/ IsFile(p)
    \/ Load(p)
    \/ Alloc(p)
    \/ Layer(p)
    \/ SaveOpen(p)
    \/ SaveClose(p)

SpecCache == InitCache /\ [][NextCache]_vars

\* ------------------------------------------------------ claims about the cache
\* C3 (as claimed): a kernel generation for a valid geometry that starts after
\* a generation for the same geometry has saved its entry makes no evaluator
\* call, does not fail, and ends with the entry of that first generation,
\* loaded from the store.
C3_LaterGenerationReuses ==
  \A p \in Procs :
    (procs[p].later /\ ~NonPositive(procs[p].cfg)) =>
      /\ procs[p].calls = 0
      /\ procs[p].pc # "failed"
      /\ procs[p].pc = "done" =>
           procs[p].hit /\ procs[p].kernel_eigs = firstEntry[procs[p].cfg]

\* All the tile evaluations of a geometry: layer_count * row_count * column_count.
AllTiles(cfg) == cfg[2][1] * cfg[2][2] * cfg[2][3]

\* C4: a generation in which an evaluation raised has failed as a whole, has
\* registered no kernel and has written nothing; and a file of the store was
\* written by a generation all of whose tile evaluations returned.
C4_FailFast ==
  /\ \A p \in Procs :
       procs[p].error = "evaluator" =>
         /\ procs[p].pc = "failed"
         /\ ~procs[p].wrote
         /\ procs[p].kernel_eigs = NoTensor
  /\ \A name \in DOMAIN files :
       files[name].exists => files[name].tiles = AllTiles(files[name].cfg)

\* An evaluation raised in a later layer, after a whole layer was evaluated,
\* and the store has no file of that name.
C4_Witness ==
  \E p \in Procs :
    /\ procs[p].error = "evaluator"
    /\ procs[p].i >= 1
    /\ procs[p].calls > TilesPerLayer(procs[p].cfg)
    /\ ~FileAt(files, ProcFname(procs[p])).exists

\* C5 (as claimed): a process that runs kernel generation while another saves
\* the entry of the same name finds no file or the whole entry: it never goes
\* on to load a file that is still being written, and torch.load never meets one.
C5_NeverSeesPartialEntry ==
  \A p \in Procs :
    (procs[p].pc # "idle" /\ ~NonPositive(procs[p].cfg)) =>
      /\ procs[p].error # "torch.load: file not whole"
      /\ procs[p].pc = "load" => Complete(FileAt(files, ProcFname(procs[p])))

\* C9 (as claimed): a constructor called with a non-positive cell size or cell
\* count fails: it never calls the evaluator, never loads from the store,
\* never writes to it and never yields a decoder.
C9_NonPositiveConfigFails ==
  \A p \in Procs :
    (procs[p].pc # "idle" /\ NonPositive(procs[p].cfg)) =>
      /\ procs[p].calls = 0
      /\ ~procs[p].wrote
      /\ ~procs[p].hit
      /\ procs[p].pc \notin {"load", "saving", "done"}

====
